---- MODULE Spec2Model ----
(***************************************************************************)
(* The namespace cursor of sway-core's semantic analysis                   *)
(* (semantic_analysis/namespace/namespace.rs): a Namespace holds the seed  *)
(* module `init`, the module tree `root` and the cursor `mod_path`.        *)
(* enter_submodule moves the cursor one level down and returns a           *)
(* SubmoduleNamespace guard whose drop moves it back.                      *)
(***************************************************************************)
EXTENDS Naturals, Sequences, FiniteSets, TLC

VARIABLES init, root, mod_path, guards, entered, dropped, status, last, clones

vars == <<init, root, mod_path, guards, entered, dropped, status, last, clones>>

(***************************************************************************)
(* Bounds and input alphabets.                                             *)
(***************************************************************************)
\* total number of enter_submodule calls in one behaviour
MaxEnters == 3

\* longest module part of an absolute path handed to the predicates
MaxRest == 2

\* submodule names
Idents == {"a", "b"}

\* package names appearing as first segment of an absolute path
Packages == {"pkg", "dep"}

\* (visibility, span) pairs a module declaration is entered with
Decls == {[visibility |-> "Public", span |-> "s1"],
          [visibility |-> "Private", span |-> "s2"]}

\* Option::None of a name or a span
None == "None"

(***************************************************************************)
(* Module: a tree node.  submodules is a map from names to Modules.        *)
(***************************************************************************)
NoSubmodules == [k \in {} |-> None]

Module(name, is_external, items, submodules) ==
    [name |-> name, span |-> None, visibility |-> "Private",
     is_external |-> is_external, items |-> items, submodules |-> submodules]

\* an external library, as found among the submodules of the initial namespace
ExternalLib == Module("a", TRUE, "lib", NoSubmodules)

\* the initial namespaces init_root is called with
Seeds == {Module("pkg", FALSE, "prelude", NoSubmodules),
          Module(None, FALSE, "prelude", NoSubmodules),
          Module("pkg", FALSE, "prelude", [k \in {"a"} |-> ExternalLib])}

\* sequences over S of length at most n
RECURSIVE SeqsUpTo(_, _)
SeqsUpTo(S, n) ==
    IF n = 0 THEN {<<>>}
    ELSE LET shorter == SeqsUpTo(S, n - 1)
         IN  shorter \cup {Append(s, x) : s \in shorter, x \in S}

\* Module::submodule(path): does walking the child maps along path succeed
RECURSIVE HasModule(_, _)
HasModule(module, path) ==
    IF path = <<>> THEN TRUE
    ELSE /\ Head(path) \in DOMAIN module.submodules
         /\ HasModule(module.submodules[Head(path)], Tail(path))

\* the node reached by walking path (only for paths with HasModule)
RECURSIVE ModuleAt(_, _)
ModuleAt(module, path) ==
    IF path = <<>> THEN module
    ELSE ModuleAt(module.submodules[Head(path)], Tail(path))

\* the tree with the node at path replaced (only for paths with HasModule)
RECURSIVE WithModuleAt(_, _, _)
WithModuleAt(module, path, node) ==
    IF path = <<>> THEN node
    ELSE [module EXCEPT !.submodules[Head(path)] =
              WithModuleAt(module.submodules[Head(path)], Tail(path), node)]

(***************************************************************************)
(* Outcomes of a call: a returned value or a panic.                        *)
(***************************************************************************)
Return(value) == [kind |-> "return", value |-> value]

Panic(msg) == [kind |-> "panic", msg |-> msg]

NoRootName == "Root module must always have a name."

EmptyAbsolutePath == "Absolute module path must have at least one element, because it always contains the package name."

NoSuchModule == "no module at path"

\* &root.module[&mod_path]: indexing a Module by a path
Index(module, path) ==
    IF HasModule(module, path) THEN Return(ModuleAt(module, path))
    ELSE Panic(NoSuchModule)

\* Namespace::module / Namespace::module_mut
module(self) == Index(self.root, self.mod_path)

\* the Namespace value made of the three fields
Self == [init |-> init, root |-> root, mod_path |-> mod_path]

\* Root::from(init.clone()): the tree whose root module is the seed
RootFrom(seed) == seed

\* init_root with the cursor on a child of the seed
init_root_inside(seed) == [init |-> seed, root |-> RootFrom(seed), mod_path |-> <<"a">>]

\* Namespace::init_root
init_root(seed) == [init |-> seed, root |-> RootFrom(seed), mod_path |-> <<>>]

\* find_module_path with the chain the other way round
find_module_path_reversed(self, prefixes) == prefixes \o self.mod_path

\* Namespace::find_module_path
find_module_path(self, prefixes) == self.mod_path \o prefixes

\* resolve_symbol starting at the root module
resolve_symbol_at_root(self, symbol) ==
    [root |-> self.root, mod_path |-> <<>>, symbol |-> symbol]

\* Namespace::resolve_symbol: the arguments of the call of Root::resolve_symbol
resolve_symbol(self, symbol) ==
    [root |-> self.root, mod_path |-> self.mod_path, symbol |-> symbol]

\* Namespace::resolve_call_path: the arguments of the call of
\* Root::resolve_call_path
resolve_call_path(self, call_path) ==
    [root |-> self.root, mod_path |-> self.mod_path, call_path |-> call_path]

(***************************************************************************)
(* enter_submodule                                                         *)
(***************************************************************************)
\* InitClone taking the current module for the template
InitClone_current(self) == ModuleAt(self.root, self.mod_path)

\* let init = self.init.clone()
InitClone(self) == self.init

\* InsertSubmodule without the insertion
InsertSubmodule_never(submodules, mod_name, init_clone) == submodules

\* InsertSubmodule with insert in place of or_insert: an existing child is replaced
InsertSubmodule_overwrite(submodules, mod_name, init_clone) ==
    [k \in DOMAIN submodules \cup {mod_name} |->
         IF k = mod_name THEN init_clone ELSE submodules[k]]

\* self.submodules.entry(mod_name).or_insert(init)
InsertSubmodule(submodules, mod_name, init_clone) ==
    IF mod_name \in DOMAIN submodules THEN submodules
    ELSE [k \in DOMAIN submodules \cup {mod_name} |->
              IF k = mod_name THEN init_clone ELSE submodules[k]]

\* SubmodPath without the chain onto mod_path
SubmodPath_unchained(path, mod_name) == <<mod_name>>

\* self.mod_path.iter().cloned().chain(Some(mod_name)).collect()
SubmodPath(path, mod_name) == Append(path, mod_name)

\* ParentModPath read after the assignment instead of taken from mem::replace
ParentModPath_after(old_path, submod_path) == submod_path

\* std::mem::replace(&mut self.mod_path, submod_path) returns the old value
ParentModPath(old_path, submod_path) == old_path

\* WithMetadata without the reset of is_external
WithMetadata_keeps_external(node, mod_name, visibility, module_span) ==
    [node EXCEPT !.name = mod_name, !.span = module_span,
                 !.visibility = visibility]

\* the four writes through deref_mut after the cursor has moved
WithMetadata(node, mod_name, visibility, module_span) ==
    [node EXCEPT !.name = mod_name, !.span = module_span,
                 !.visibility = visibility, !.is_external = FALSE]

\* CursorAtMetadata if the writes came before the cursor moved
CursorAtMetadata_before(parent_mod_path, submod_path) == parent_mod_path

\* the module self.name, self.span, .. are written to: deref_mut follows
\* mod_path, which mem::replace has set to submod_path by then
CursorAtMetadata(parent_mod_path, submod_path) == submod_path

\* Namespace::enter_submodule: the Namespace afterwards, the guard's saved
\* path, and whether a deref_mut on the way panicked
enter_submodule(self, mod_name, visibility, module_span) ==
    IF ~HasModule(self.root, self.mod_path)
    THEN [self |-> self, outcome |-> Panic(NoSuchModule)]
    ELSE
    LET current     == ModuleAt(self.root, self.mod_path)
        submodules  == InsertSubmodule(current.submodules, mod_name, InitClone(self))
        root1       == WithModuleAt(self.root, self.mod_path,
                                    [current EXCEPT !.submodules = submodules])
        submod_path == SubmodPath(self.mod_path, mod_name)
        parent_mod_path == ParentModPath(self.mod_path, submod_path)
        self1       == [self EXCEPT !.root = root1, !.mod_path = submod_path]
        written     == CursorAtMetadata(self.mod_path, submod_path)
    IN  IF ~HasModule(root1, written)
        THEN [self |-> self1, outcome |-> Panic(NoSuchModule)]
        ELSE [self |-> [self1 EXCEPT !.root =
                           WithModuleAt(root1, written,
                               WithMetadata(ModuleAt(root1, written),
                                            mod_name, visibility, module_span))],
              outcome |-> Return([parent_mod_path |-> parent_mod_path])]

(***************************************************************************)
(* The two path predicates                                                 *)
(***************************************************************************)
\* modules.iter().zip(self.mod_path.iter()).all(|(left, right)| left == right)
ZipAll(modules, path) ==
    \A i \in 1..(IF Len(modules) < Len(path) THEN Len(modules) ELSE Len(path)) :
        modules[i] = path[i]

\* module_is_submodule_of with <= in place of < in the length test
module_is_submodule_of_le(self, absolute_module_path, true_if_same) ==
    IF self.root.name = None THEN Panic(NoRootName)
    ELSE IF absolute_module_path = <<>> THEN Panic(EmptyAbsolutePath)
    ELSE
    LET root_name    == self.root.name
        package_name == Head(absolute_module_path)
        modules      == Tail(absolute_module_path)
    IN  IF root_name # package_name THEN Return(FALSE)
        ELSE IF Len(self.mod_path) <= Len(modules) THEN Return(FALSE)
        ELSE IF ZipAll(modules, self.mod_path)
             THEN IF Len(self.mod_path) = Len(modules)
                  THEN Return(true_if_same)
                  ELSE Return(TRUE)
             ELSE Return(FALSE)

\* Namespace::module_is_submodule_of
module_is_submodule_of(self, absolute_module_path, true_if_same) ==
    IF self.root.name = None THEN Panic(NoRootName)
    ELSE IF absolute_module_path = <<>> THEN Panic(EmptyAbsolutePath)
    ELSE
    LET root_name    == self.root.name
        package_name == Head(absolute_module_path)
        modules      == Tail(absolute_module_path)
    IN  IF root_name # package_name THEN Return(FALSE)
        ELSE IF Len(self.mod_path) < Len(modules) THEN Return(FALSE)
        ELSE IF ZipAll(modules, self.mod_path)
             THEN IF Len(self.mod_path) = Len(modules)
                  THEN Return(true_if_same)
                  ELSE Return(TRUE)
             ELSE Return(FALSE)

\* module_is_external comparing the last segment instead of the first
module_is_external_last(self, absolute_module_path) ==
    IF self.root.name = None THEN Panic(NoRootName)
    ELSE IF absolute_module_path = <<>> THEN Panic(EmptyAbsolutePath)
    ELSE Return(self.root.name # absolute_module_path[Len(absolute_module_path)])

\* module_is_external looking at the path before the root name
module_is_external_path_first(self, absolute_module_path) ==
    IF absolute_module_path = <<>> THEN Panic(EmptyAbsolutePath)
    ELSE IF self.root.name = None THEN Panic(NoRootName)
    ELSE Return(self.root.name # absolute_module_path[1])

\* Namespace::module_is_external
module_is_external(self, absolute_module_path) ==
    IF self.root.name = None THEN Panic(NoRootName)
    ELSE IF absolute_module_path = <<>> THEN Panic(EmptyAbsolutePath)
    ELSE Return(self.root.name # absolute_module_path[1])

\* the absolute paths the predicates are called with
AbsolutePaths ==
    {<<>>} \cup {<<p>> \o rest : p \in Packages, rest \in SeqsUpTo(Idents, MaxRest)}

(***************************************************************************)
(* State machine                                                           *)
(*                                                                         *)
(* guards are the live SubmoduleNamespace values in order of creation.     *)
(* Besides the saved parent_mod_path and the handle it borrows             *)
(* (namespace), a guard carries its number and three history fields that   *)
(* no code reads: the cursor at the time of the call (entered_at), the     *)
(* name entered (mod_name) and whether the child was already there         *)
(* (existed).  dropped counts, per guard number, how often it was dropped. *)
(* status is "running" until a panic, "unwinding" while the panic drops    *)
(* the live guards, "aborted" when the pass is gone.  clones holds the     *)
(* Namespace made by Clone::clone, if one was made.                        *)
(***************************************************************************)
Init ==
    /\ \E seed \in Seeds :
           LET ns == init_root(seed)
           IN  /\ init = ns.init
               /\ root = ns.root
               /\ mod_path = ns.mod_path
               /\ last = [op |-> "init_root", seed |-> seed]
    /\ guards = <<>>
    /\ entered = 0
    /\ dropped = [id \in 1..(MaxEnters + 1) |-> 0]
    /\ status = "running"
    /\ clones = <<>>

\* a panic unwinds the stack: the live guards are dropped one by one, then
\* the pass is over
Unwinding == IF guards = <<>> THEN "aborted" ELSE "unwinding"

Handles == {0} \cup {guards[i].id : i \in 1..Len(guards)}

\* SubmoduleNamespace { namespace: self, .. }: handle h (0 is the Namespace
\* itself, id > 0 the guard with that number) is exclusively borrowed by a
\* live guard
Borrowed(h) == \E i \in 1..Len(guards) : guards[i].namespace = h

\* Usable if the guard did not hold the borrow
Usable_shared(h) == h \in Handles

\* a call or a drop can only go through a handle nobody borrows
Usable(h) == h \in Handles /\ ~Borrowed(h)

\* enter_submodule called through handle h
Enter(h, mod_name, decl) ==
    /\ status = "running"
    /\ Usable(h)
    /\ entered + (IF clones = <<>> THEN 0 ELSE clones[1].entered) < MaxEnters
    /\ LET r == enter_submodule(Self, mod_name, decl.visibility, decl.span)
           existed == /\ HasModule(root, mod_path)
                      /\ mod_name \in DOMAIN ModuleAt(root, mod_path).submodules
       IN  /\ init' = r.self.init
           /\ root' = r.self.root
           /\ mod_path' = r.self.mod_path
           /\ IF r.outcome.kind = "return"
              THEN /\ guards' = Append(guards,
                          [id |-> entered + 1, namespace |-> h,
                           parent_mod_path |-> r.outcome.value.parent_mod_path,
                           entered_at |-> mod_path, mod_name |-> mod_name,
                           existed |-> existed])
                   /\ entered' = entered + 1
                   /\ status' = status
              ELSE /\ UNCHANGED <<guards, entered>>
                   /\ status' = Unwinding
           /\ last' = [op |-> "enter_submodule", outcome |-> r.outcome.kind,
                       existed |-> existed, mod_name |-> mod_name, decl |-> decl]
    /\ UNCHANGED <<dropped, clones>>

\* Drop that also takes the module just left out of its parent
Drop_pruning(i) ==
    /\ status \in {"running", "unwinding"}
    /\ i \in 1..Len(guards)
    /\ Usable(guards[i].id)
    /\ mod_path' = guards[i].parent_mod_path
    /\ root' = IF HasModule(root, guards[i].parent_mod_path)
               THEN LET parent == ModuleAt(root, guards[i].parent_mod_path)
                    IN  WithModuleAt(root, guards[i].parent_mod_path,
                            [parent EXCEPT !.submodules =
                                [k \in DOMAIN parent.submodules \ {guards[i].mod_name}
                                     |-> parent.submodules[k]]])
               ELSE root
    /\ guards' = [j \in 1..(Len(guards) - 1) |->
                      IF j < i THEN guards[j] ELSE guards[j + 1]]
    /\ dropped' = [dropped EXCEPT ![guards[i].id] = @ + 1]
    /\ status' = IF status = "unwinding" /\ Len(guards) = 1 THEN "aborted" ELSE status
    /\ last' = [op |-> "drop", outcome |-> "return", existed |-> guards[i].existed]
    /\ UNCHANGED <<init, entered, clones>>

\* Drop for SubmoduleNamespace, of the live guard at position i: the end of
\* its scope (return, early return) or a step of unwinding
Drop(i) ==
    /\ status \in {"running", "unwinding"}
    /\ i \in 1..Len(guards)
    /\ Usable(guards[i].id)
    /\ mod_path' = guards[i].parent_mod_path
    /\ guards' = [j \in 1..(Len(guards) - 1) |->
                      IF j < i THEN guards[j] ELSE guards[j + 1]]
    /\ dropped' = [dropped EXCEPT ![guards[i].id] = @ + 1]
    /\ status' = IF status = "unwinding" /\ Len(guards) = 1 THEN "aborted" ELSE status
    /\ last' = [op |-> "drop", outcome |-> "return", existed |-> guards[i].existed]
    /\ UNCHANGED <<init, root, entered, clones>>

\* a call of module_is_submodule_of
IsSubmoduleOf(absolute_module_path, true_if_same) ==
    /\ status = "running"
    /\ LET r == module_is_submodule_of(Self, absolute_module_path, true_if_same)
       IN  /\ last' = [op |-> "module_is_submodule_of",
                       path |-> absolute_module_path,
                       true_if_same |-> true_if_same, outcome |-> r]
           /\ status' = IF r.kind = "panic" THEN Unwinding ELSE status
    /\ UNCHANGED <<init, root, mod_path, guards, entered, dropped, clones>>

\* a call of module_is_external
IsExternal(absolute_module_path) ==
    /\ status = "running"
    /\ LET r == module_is_external(Self, absolute_module_path)
       IN  /\ last' = [op |-> "module_is_external",
                       path |-> absolute_module_path, outcome |-> r]
           /\ status' = IF r.kind = "panic" THEN Unwinding ELSE status
    /\ UNCHANGED <<init, root, mod_path, guards, entered, dropped, clones>>

\* a read of the current module: Namespace::module, or any Module method
\* called on the Namespace through Deref
GetModule ==
    /\ status = "running"
    /\ LET r == module(Self)
       IN  /\ last' = [op |-> "module", outcome |-> r.kind]
           /\ status' = IF r.kind = "panic" THEN Unwinding ELSE status
    /\ UNCHANGED <<init, root, mod_path, guards, entered, dropped, clones>>

\* a write to the current module through Namespace::module_mut (DerefMut):
\* a declaration is added to its items
Declare ==
    /\ status = "running"
    /\ LET r == module(Self)
       IN  /\ IF r.kind = "return"
              THEN root' = WithModuleAt(root, mod_path,
                                        [r.value EXCEPT !.items = "declared"])
              ELSE root' = root
           /\ last' = [op |-> "module_mut", outcome |-> r.kind]
           /\ status' = IF r.kind = "panic" THEN Unwinding ELSE status
    /\ UNCHANGED <<init, mod_path, guards, entered, dropped, clones>>

\* a write through Namespace::root_mut, which hands out the whole tree:
\* the child named mod_name of the root module is removed
RootMutRemove(mod_name) ==
    /\ status = "running"
    /\ mod_name \in DOMAIN root.submodules
    /\ root' = [root EXCEPT !.submodules =
                    [k \in DOMAIN root.submodules \ {mod_name} |-> root.submodules[k]]]
    /\ last' = [op |-> "root_mut", outcome |-> "return"]
    /\ UNCHANGED <<init, mod_path, guards, entered, dropped, status, clones>>

\* a call of find_module_path
FindModulePath(prefixes) ==
    /\ status = "running"
    /\ last' = [op |-> "find_module_path", prefixes |-> prefixes,
                outcome |-> Return(find_module_path(Self, prefixes))]
    /\ UNCHANGED <<init, root, mod_path, guards, entered, dropped, status, clones>>

\* a call of resolve_symbol; what the resolver finds is its own affair
ResolveSymbol(symbol, found) ==
    /\ status = "running"
    /\ last' = [op |-> "resolve_symbol", call |-> resolve_symbol(Self, symbol),
                outcome |-> IF found THEN "Ok" ELSE "Err"]
    /\ UNCHANGED <<init, root, mod_path, guards, entered, dropped, status, clones>>

\* a call of resolve_call_path
ResolveCallPath(call_path, found) ==
    /\ status = "running"
    /\ last' = [op |-> "resolve_call_path",
                call |-> resolve_call_path(Self, call_path),
                outcome |-> IF found THEN "Ok" ELSE "Err"]
    /\ UNCHANGED <<init, root, mod_path, guards, entered, dropped, status, clones>>

\* Root::clone handing out a handle to the same tree in place of a copy
RootClone_handle(tree) == [owned |-> FALSE, module |-> tree]

\* Clone for the field root: Root, held by value: a tree of its own
RootClone(tree) == [owned |-> TRUE, module |-> tree]

\* #[derive(Clone)] for Namespace: each field is cloned
clone(self) ==
    [init |-> self.init, root |-> RootClone(self.root), mod_path |-> self.mod_path]

\* the tree a clone addresses
CloneTree(c) == IF c.root.owned THEN c.root.module ELSE root

\* the clone as a Namespace value
CloneSelf(c) == [init |-> c.init, root |-> CloneTree(c), mod_path |-> c.mod_path]

\* Namespace::clone; the clone keeps the saved paths of its own guards
\* (parents) and the number of its enter_submodule calls (entered) next to
\* its three fields
CloneNamespace ==
    /\ status = "running"
    /\ clones = <<>>
    /\ LET c == clone(Self)
       IN  clones' = <<[init |-> c.init, root |-> c.root, mod_path |-> c.mod_path,
                        parents |-> <<>>, entered |-> 0]>>
    /\ last' = [op |-> "clone", outcome |-> "return"]
    /\ UNCHANGED <<init, root, mod_path, guards, entered, dropped, status>>

\* the effect of a call through the clone that left it as Namespace ns: its
\* tree is written where the clone keeps it
CloneWrite(ns, parents) ==
    LET c == clones[1]
    IN  /\ clones' = <<[c EXCEPT !.mod_path = ns.mod_path, !.parents = parents,
                                 !.entered = @ + Len(parents) - Len(c.parents),
                                 !.root.module = IF c.root.owned THEN ns.root ELSE @]>>
        /\ root' = IF c.root.owned THEN root ELSE ns.root

\* enter_submodule called on the clone
CloneEnter(mod_name, decl) ==
    /\ status = "running"
    /\ clones # <<>>
    /\ entered + clones[1].entered < MaxEnters
    /\ LET c == clones[1]
           r == enter_submodule(CloneSelf(c), mod_name, decl.visibility, decl.span)
       IN  /\ CloneWrite(r.self, IF r.outcome.kind = "return"
                                 THEN Append(c.parents, r.outcome.value.parent_mod_path)
                                 ELSE c.parents)
           /\ status' = IF r.outcome.kind = "panic" THEN Unwinding ELSE status
           /\ last' = [op |-> "clone.enter_submodule", outcome |-> r.outcome.kind]
    /\ UNCHANGED <<init, mod_path, guards, entered, dropped>>

\* the drop of the clone's most recent guard
CloneDrop ==
    /\ status = "running"
    /\ clones # <<>>
    /\ clones[1].parents # <<>>
    /\ LET c == clones[1]
           n == Len(c.parents)
       IN  clones' = <<[c EXCEPT !.mod_path = c.parents[n],
                                 !.parents = SubSeq(c.parents, 1, n - 1)]>>
    /\ last' = [op |-> "clone.drop", outcome |-> "return"]
    /\ UNCHANGED <<init, root, mod_path, guards, entered, dropped, status>>

\* a write to the clone's current module through module_mut
CloneDeclare ==
    /\ status = "running"
    /\ clones # <<>>
    /\ LET c == clones[1]
           r == module(CloneSelf(c))
       IN  /\ IF r.kind = "return"
              THEN CloneWrite([CloneSelf(c) EXCEPT !.root =
                                   WithModuleAt(CloneTree(c), c.mod_path,
                                                [r.value EXCEPT !.items = "declared"])],
                              c.parents)
              ELSE UNCHANGED <<clones, root>>
           /\ status' = IF r.kind = "panic" THEN Unwinding ELSE status
           /\ last' = [op |-> "clone.module_mut", outcome |-> r.kind]
    /\ UNCHANGED <<init, mod_path, guards, entered, dropped>>

EnterAny ==
    \E h \in 0..MaxEnters, mod_name \in Idents, decl \in Decls :
        Enter(h, mod_name, decl)

DropAny == \E i \in 1..(MaxEnters + 1) : Drop(i)

\* absolute paths of each kind: empty, this package, another package
SomeAbsolutePaths == {<<>>, <<"pkg">>, <<"dep", "a">>}

\* the declaration the scopes are entered with where the metadata plays no part
PrivateDecl == [visibility |-> "Private", span |-> "s2"]

\* the pass as the cursor sees it: scopes, reads of the current module, and
\* a predicate call, which may panic
Next ==
    \/ EnterAny
    \/ DropAny
    \/ GetModule
    \/ \E p \in SomeAbsolutePaths : IsExternal(p)

Spec == Init /\ [][Next]_vars

\* every scope that was opened ends: by return, early return or unwinding
SpecFair == Spec /\ WF_vars(DropAny)

\* the pass as the predicates see it: scopes and predicate calls on every
\* absolute path
NextPredicates ==
    \/ \E h \in 0..MaxEnters, mod_name \in Idents : Enter(h, mod_name, PrivateDecl)
    \/ DropAny
    \/ \E p \in AbsolutePaths, f \in BOOLEAN : IsSubmoduleOf(p, f)
    \/ \E p \in AbsolutePaths : IsExternal(p)

SpecPredicates == Init /\ [][NextPredicates]_vars

\* the pass as the tree sees it: scopes, reads and writes of the current module
NextTree ==
    \/ EnterAny
    \/ DropAny
    \/ GetModule
    \/ Declare

SpecTree == Init /\ [][NextTree]_vars

\* the pass with a caller that also edits the tree through root_mut
NextRaw ==
    \/ EnterAny
    \/ DropAny
    \/ GetModule
    \/ Declare
    \/ \E mod_name \in Idents : RootMutRemove(mod_name)

SpecRaw == Init /\ [][NextRaw]_vars

\* the pass as the callers that name and resolve things see it
NextPaths ==
    \/ EnterAny
    \/ DropAny
    \/ \E prefixes \in SeqsUpTo(Idents, MaxRest) : FindModulePath(prefixes)
    \/ \E found \in BOOLEAN : ResolveSymbol("x", found)
    \/ \E found \in BOOLEAN : ResolveCallPath(<<"a", "x">>, found)

SpecPaths == Init /\ [][NextPaths]_vars

\* the pass with a second Namespace cloned from the first
NextClone ==
    \/ \E h \in 0..MaxEnters, mod_name \in Idents : Enter(h, mod_name, PrivateDecl)
    \/ DropAny
    \/ CloneNamespace
    \/ \E mod_name \in Idents : CloneEnter(mod_name, PrivateDecl)
    \/ CloneDrop
    \/ CloneDeclare

SpecClone == Init /\ [][NextClone]_vars

TypeOK ==
    /\ init \in Seeds
    /\ mod_path \in Seq(Idents)
    /\ status \in {"running", "unwinding", "aborted"}
    /\ entered \in 0..MaxEnters

(***************************************************************************)
(* Properties                                                              *)
(***************************************************************************)
LiveIds == {guards[i].id : i \in 1..Len(guards)}

\* the names of the first k live guards, in order of entry
EnteredNames(k) == [j \in 1..k |-> guards[j].mod_name]

\* this step removes a guard
Releases == Len(guards') < Len(guards)

\* rest is a segment-wise prefix of path
IsPrefixOf(rest, path) ==
    /\ Len(rest) <= Len(path)
    /\ SubSeq(path, 1, Len(rest)) = rest

\* C1: whenever a guard is released, mod_path afterwards is the value it had
\* immediately before the enter_submodule call that returned this guard,
\* whether or not the child existed at that call.
C1_RoundTrip ==
    [][\A i \in 1..Len(guards) :
           guards[i].id \notin {guards'[j].id : j \in 1..Len(guards')}
               => mod_path' = guards[i].entered_at]_vars

\* a guard whose enter found the child already there has been released and
\* the cursor is back at the root
C1_Witness ==
    /\ last.op = "drop"
    /\ last.existed
    /\ mod_path = <<>>
    /\ "a" \in DOMAIN root.submodules

\* C2: with k nested scopes open, mod_path is the names entered in order
\* (the traversal starts at the root), the i-th guard restores to the first
\* i-1 names, and a release removes the last guard and leaves mod_path at the
\* names of the remaining ones.
C2_StackDiscipline ==
    /\ [](status = "running" =>
            /\ mod_path = EnteredNames(Len(guards))
            /\ \A i \in 1..Len(guards) :
                   guards[i].parent_mod_path = EnteredNames(i - 1))
    /\ [][Releases => mod_path' = EnteredNames(Len(guards) - 1)]_vars

\* three scopes were nested, the two inner ones are released
C2_Witness ==
    /\ Len(guards) = 1
    /\ guards[1].id = 1
    /\ dropped[2] = 1
    /\ dropped[3] = 1
    /\ last.op = "drop"
    /\ mod_path = <<guards[1].mod_name>>

\* C3: mod_path always names a node of the tree, and a read of the current
\* module never panics.
C3_CursorInTree ==
    /\ HasModule(root, mod_path)
    /\ last.op = "module" => last.outcome = "return"

\* the current module is read two levels below the root
C3_Witness ==
    /\ last.op = "module"
    /\ last.outcome = "return"
    /\ Len(mod_path) = 2

\* C4: an enter_submodule of a name the current module already has as a child
\* leaves the set of children of the current module as it was and keeps the
\* child's own children and items.
C4_ReentryKeepsChild ==
    [][entered' = entered + 1 =>
          LET current  == ModuleAt(root, mod_path)
              mod_name == guards'[Len(guards')].mod_name
          IN  mod_name \in DOMAIN current.submodules =>
                  /\ DOMAIN ModuleAt(root', mod_path).submodules
                         = DOMAIN current.submodules
                  /\ ModuleAt(root', mod_path').submodules
                         = current.submodules[mod_name].submodules
                  /\ ModuleAt(root', mod_path').items
                         = current.submodules[mod_name].items]_vars

\* a child that has a declaration and a child of its own was entered again
C4_Witness ==
    /\ last.op = "enter_submodule"
    /\ last.existed
    /\ HasModule(root, mod_path)
    /\ ModuleAt(root, mod_path).items = "declared"
    /\ DOMAIN ModuleAt(root, mod_path).submodules # {}

\* C5: with the root name set and a non-empty path [p] ++ rest,
\* module_is_submodule_of returns true exactly when p is the root name, rest
\* is a prefix of mod_path, and rest is shorter than mod_path or of the same
\* length with true_if_same set.
C5_SubmoduleOfResult ==
    (/\ last.op = "module_is_submodule_of"
     /\ root.name # None
     /\ last.path # <<>>)
        => LET p    == Head(last.path)
               rest == Tail(last.path)
           IN  last.outcome =
                   Return(/\ p = root.name
                          /\ IsPrefixOf(rest, mod_path)
                          /\ \/ Len(rest) < Len(mod_path)
                             \/ Len(rest) = Len(mod_path) /\ last.true_if_same)

\* the same module, two levels down, with true_if_same set
C5_Witness ==
    /\ last.op = "module_is_submodule_of"
    /\ last.outcome = Return(TRUE)
    /\ Len(mod_path) = 2
    /\ Tail(last.path) = mod_path

\* C6: with the root name set and a non-empty path, module_is_external
\* returns true exactly when the first segment differs from the root name.
C6_ExternalResult ==
    (/\ last.op = "module_is_external"
     /\ root.name # None
     /\ last.path # <<>>)
        => last.outcome = Return(Head(last.path) # root.name)

\* a path of another package whose module part names no node of the tree
C6_Witness ==
    /\ last.op = "module_is_external"
    /\ last.outcome = Return(TRUE)
    /\ Len(last.path) = 3
    /\ ~HasModule(root, Tail(last.path))
    /\ mod_path # <<>>

\* C7: every guard created is dropped exactly once: a live guard not yet, a
\* guard no longer live once; open scopes end; and with no guard outstanding,
\* after a return or after a panic, mod_path is the root path the traversal
\* started at.
C7_EveryGuardReleasedOnce ==
    /\ [](\A id \in 1..entered :
              dropped[id] = IF id \in LiveIds THEN 0 ELSE 1)
    /\ [](guards = <<>> => mod_path = <<>>)
    /\ [](status = "aborted" => guards = <<>>)
    /\ [](guards # <<>> => <>(guards = <<>>))

\* a panic with scopes open has unwound all of them
C7_Witness ==
    /\ status = "aborted"
    /\ last.op = "drop"
    /\ guards = <<>>
    /\ dropped[1] = 1
    /\ dropped[2] = 1

\* C8: every live guard borrows the guard entered just before it (the first
\* one the Namespace), and a release always removes the most recent guard.
C8_LastInFirstOut ==
    /\ [](\A i \in 1..Len(guards) :
              guards[i].namespace = IF i = 1 THEN 0 ELSE guards[i - 1].id)
    /\ [][Releases => guards' = SubSeq(guards, 1, Len(guards) - 1)]_vars

\* the innermost of three nested guards is gone, the outer two are live
C8_Witness ==
    /\ Len(guards) = 2
    /\ guards[2].namespace = guards[1].id
    /\ last.op = "drop"
    /\ dropped[3] = 1

\* C9: a predicate called with the empty path and the root name set ends in
\* a MalformedPath error outcome and the pass goes on.
C9_EmptyPathIsFault ==
    (/\ last.op \in {"module_is_submodule_of", "module_is_external"}
     /\ root.name # None
     /\ last.path = <<>>)
        => /\ last.outcome = [kind |-> "fault", fault |-> "MalformedPath"]
           /\ status = "running"

\* C10: a read or write of the current module while mod_path names no node
\* ends in a MissingModule error outcome and the pass goes on.
C10_MissingModuleIsFault ==
    (/\ last.op \in {"module", "module_mut"}
     /\ ~HasModule(root, mod_path))
        => /\ last.outcome = "MissingModule"
           /\ status = "running"
\* the calls made through the clone
CloneOps == {"clone.enter_submodule", "clone.drop", "clone.module_mut"}

RECURSIVE PathsOf(_)
PathsOf(node) ==
    {<<>>} \cup UNION {{<<k>> \o p : p \in PathsOf(node.submodules[k])} :
                       k \in DOMAIN node.submodules}

\* what the node at path holds itself: its fields and the names of its children
Own(tree, path) ==
    LET node == ModuleAt(tree, path)
    IN  [name |-> node.name, span |-> node.span, visibility |-> node.visibility,
         is_external |-> node.is_external, items |-> node.items,
         children |-> DOMAIN node.submodules]

\* this step is a call of enter_submodule that returned
Enters == entered' = entered + 1

\* C12: right after enter_submodule(name, visibility, span) the module at
\* the new mod_path has that name, span and visibility and is not external,
\* whether it was created by the call or was there before.
C12_MetadataRefreshed ==
    (last.op = "enter_submodule" /\ last.outcome = "return")
        => LET node == ModuleAt(root, mod_path)
           IN  /\ node.name = last.mod_name
               /\ node.span = last.decl.span
               /\ node.visibility = last.decl.visibility
               /\ node.is_external = FALSE

\* the external library "a" of the seed, private and without span, has been
\* entered as a public submodule
C12_Witness ==
    /\ last.op = "enter_submodule"
    /\ last.existed
    /\ entered = 1
    /\ mod_path = <<"a">>
    /\ "a" \in DOMAIN init.submodules
    /\ init.submodules["a"].is_external
    /\ last.decl.visibility = "Public"

\* C13: find_module_path returns mod_path followed by the given segments,
\* element by element, and the call leaves init, the tree and mod_path alone.
C13_FindModulePath ==
    /\ [](last.op = "find_module_path" =>
            LET result == last.outcome.value
                n      == Len(mod_path)
            IN  /\ last.outcome.kind = "return"
                /\ Len(result) = n + Len(last.prefixes)
                /\ \A i \in 1..n : result[i] = mod_path[i]
                /\ \A j \in 1..Len(last.prefixes) : result[n + j] = last.prefixes[j])
    /\ [][last'.op = "find_module_path" =>
            init' = init /\ root' = root /\ mod_path' = mod_path]_vars

\* a path below the current module is named where the tree has no node
C13_Witness ==
    /\ last.op = "find_module_path"
    /\ mod_path # <<>>
    /\ Len(last.prefixes) = 2
    /\ last.prefixes[1] # last.prefixes[2]
    /\ ~HasModule(root, last.outcome.value)

\* C14: init_root(seed) gives an empty mod_path, a tree whose root module is
\* the seed and init equal to the seed; the current module is the root.
C14_InitialState ==
    last.op = "init_root"
        => /\ mod_path = <<>>
           /\ root = last.seed
           /\ init = last.seed
           /\ module(Self) = Return(last.seed)

\* the Namespace made from the seed that has a submodule
C14_Witness ==
    /\ last.op = "init_root"
    /\ DOMAIN last.seed.submodules # {}
    /\ guards = <<>>

\* C15: a release leaves init and the tree as they are; the module that was
\* current before the release is still there, unchanged.
C15_ReleaseFrame ==
    [][Releases =>
          /\ init' = init
          /\ root' = root
          /\ HasModule(root', mod_path)
          /\ ModuleAt(root', mod_path) = ModuleAt(root, mod_path)]_vars

\* a submodule that was given a declaration and a child has been left
C15_Witness ==
    /\ last.op = "drop"
    /\ mod_path = <<>>
    /\ \E k \in DOMAIN root.submodules :
           /\ root.submodules[k].items = "declared"
           /\ root.submodules[k].name = k
           /\ DOMAIN root.submodules[k].submodules # {}

\* C16: a child created by enter_submodule has the items and the submodules
\* of init, and init never changes: it is the seed init_root was given.
C16_FreshFromInit ==
    /\ [](last.op = "init_root" => init = last.seed)
    /\ [][init' = init]_vars
    /\ [][Enters =>
            LET current  == ModuleAt(root, mod_path)
                mod_name == guards'[Len(guards')].mod_name
                child    == ModuleAt(root', mod_path')
            IN  mod_name \notin DOMAIN current.submodules =>
                    /\ child.items = init.items
                    /\ child.submodules = init.submodules]_vars

\* a child was created below a module that holds a declaration and has
\* children of its own
C16_Witness ==
    /\ last.op = "enter_submodule"
    /\ ~last.existed
    /\ Len(mod_path) = 2
    /\ ModuleAt(root, SubSeq(mod_path, 1, 1)).items = "declared"
    /\ ModuleAt(root, mod_path).items = "prelude"
    /\ ModuleAt(root, mod_path).submodules = init.submodules

ResolveOps == {"resolve_symbol", "resolve_call_path"}

\* C17: resolve_symbol and resolve_call_path call the resolver with the tree
\* and the current mod_path, so that the lookup starts at the module that
\* module() returns; the calls leave mod_path and the tree alone.
C17_ResolveAtCursor ==
    /\ [](last.op \in ResolveOps =>
            /\ last.call.mod_path = mod_path
            /\ last.call.root = root
            /\ Index(last.call.root, last.call.mod_path) = module(Self))
    /\ [][last'.op \in ResolveOps => mod_path' = mod_path /\ root' = root]_vars

\* a symbol is resolved inside a guard, after a nested guard was released
C17_Witness ==
    /\ last.op = "resolve_symbol"
    /\ Len(guards) = 1
    /\ dropped[2] = 1
    /\ mod_path # <<>>

C19_EnterFrame ==
    /\ [][Enters =>
            LET m     == guards'[Len(guards')].mod_name
                child == Append(mod_path, m)
            IN  /\ init' = init
                /\ \A q \in PathsOf(root) :
                       /\ HasModule(root', q)
                       /\ IF q = child
                          THEN /\ Own(root', q).items = Own(root, q).items
                               /\ Own(root', q).children = Own(root, q).children
                          ELSE IF q = mod_path
                          THEN Own(root', q) =
                                   [Own(root, q) EXCEPT !.children = @ \cup {m}]
                          ELSE Own(root', q) = Own(root, q)
                /\ \A q \in PathsOf(root') \ PathsOf(root) : IsPrefixOf(child, q)]_vars
    /\ [][root'.name = root.name]_vars

\* a submodule was entered two levels down and the root still has its name
C19_Witness ==
    /\ last.op = "enter_submodule"
    /\ last.outcome = "return"
    /\ Len(mod_path) = 2
    /\ root.name = "pkg"
    /\ ModuleAt(root, mod_path).name # ModuleAt(root, SubSeq(mod_path, 1, 1)).name

\* C20: the length of mod_path is the number of live guards, mod_path is
\* their names in order of entry, and it is empty exactly when there is none.
C20_DepthIsGuards ==
    /\ Len(mod_path) = Len(guards)
    /\ mod_path = EnteredNames(Len(guards))
    /\ (mod_path = <<>>) <=> (guards = <<>>)

\* two guards are live after another one was released
C20_Witness ==
    /\ Len(guards) = 2
    /\ Len(mod_path) = 2
    /\ guards[2].id = 3
    /\ dropped[2] = 1
====
